---- MODULE Spec2Model ----
(***************************************************************************)
(* Model of the concurrent object downloader of                            *)
(* feature/s3/transfermanager/api_op_DownloadObject.go.                    *)
(*                                                                         *)
(* One download call: the caller's goroutine ("main") runs                 *)
(* downloader.download; fan-out starts Concurrency worker goroutines that  *)
(* run downloader.downloadPart.  The S3 client (GetObject) and the         *)
(* destination io.WriterAt are the environment: a GetObject call is two    *)
(* steps (issue, complete) so that calls overlap in time, and its outcome  *)
(* (success, call-level error, body-stream failure after k bytes) is       *)
(* chosen by the environment when the call completes.                      *)
(*                                                                         *)
(* Strings that the code formats or parses (Range, Content-Range) are      *)
(* sequences of one-character strings, and formatting and parsing are      *)
(* computed as the code computes them.                                     *)
(***************************************************************************)
EXTENDS Integers, Sequences, FiniteSets, TLC

\* ---------------------------------------------------------------- bounds
\* Largest Concurrency option tried (0 is tried too: init accepts it).
MaxConcurrency == 2
\* Largest object tried, in bytes.
MaxObjSize == 5
\* Largest number of parts of a multipart object.
MaxParts == 3
\* Most failures the environment injects in one download (transport errors,
\* body-stream failures, an unreadable Content-Range).
MaxFaults == 1

\* The scaled-down minimum part size (the code's constant is 5 MiB).
minPartSizeBytes == 2

\* The PartSizeBytes options tried: one below the minimum, and the minimum.
PartSizes == {minPartSizeBytes - 1, minPartSizeBytes}

\* The PartBodyMaxRetries options tried: a negative one, 0, 1 (one attempt and
\* no retry) and 2 (one retry).
RetryChoices == {0 - 1, 0, 1, 2}

\* The lengths of the parts of a multipart object.
PartLens == {1, 2}

\* ---------------------------------------------------------------- strings
Digit == <<"0", "1", "2", "3", "4", "5", "6", "7", "8", "9">>

DigitVal(c) == (CHOOSE i \in 1..10 : Digit[i] = c) - 1

IsDigit(c) == \E i \in 1..10 : Digit[i] = c

RECURSIVE NatStr(_)
\* fmt's %d of a non-negative integer.
NatStr(n) == IF n < 10 THEN <<Digit[n + 1]>> ELSE NatStr(n \div 10) \o <<Digit[(n % 10) + 1]>>

\* fmt's %d.
IntStr(n) == IF n < 0 THEN <<"-">> \o NatStr(-n) ELSE NatStr(n)

RECURSIVE DigitsVal(_, _)
DigitsVal(s, acc) == IF s = <<>> THEN acc ELSE DigitsVal(Tail(s), acc * 10 + DigitVal(Head(s)))

\* strconv.ParseInt(s, 10, 64): an optional sign, then one or more digits.
ParseInt(s) ==
  LET body == IF s # <<>> /\ Head(s) \in {"+", "-"} THEN Tail(s) ELSE s
      ok == body # <<>> /\ \A i \in 1..Len(body) : IsDigit(body[i])
  IN  [ok |-> ok,
       val |-> IF ~ok THEN 0
               ELSE IF Head(s) = "-" THEN 0 - DigitsVal(body, 0) ELSE DigitsVal(body, 0)]

RECURSIVE SplitAcc(_, _, _)
SplitAcc(s, sep, cur) ==
  IF s = <<>> THEN <<cur>>
  ELSE IF Head(s) = sep THEN <<cur>> \o SplitAcc(Tail(s), sep, <<>>)
  ELSE SplitAcc(Tail(s), sep, Append(cur, Head(s)))

\* strings.Split(s, sep) for a one-character separator.
Split(s, sep) == SplitAcc(s, sep, <<>>)

\* fmt.Sprintf("bytes=%d-%d", a, b)
FmtRange(a, b) == <<"b", "y", "t", "e", "s", "=">> \o IntStr(a) \o <<"-">> \o IntStr(b)

Min(a, b) == IF a < b THEN a ELSE b

RECURSIVE SumSeq(_)
SumSeq(s) == IF s = <<>> THEN 0 ELSE Head(s) + SumSeq(Tail(s))

\* ------------------------------------------------------- values of the code
\* A Go string that is empty (also the model of a nil *string).
EmptyStr == <<>>

\* An error value.  kind "nil" is Go's nil; at names the chunk (its start
\* offset in the destination) whose fetch produced the error, so that the
\* errors of two chunks are different values; try is the attempt that
\* produced a body-stream error, and 0 for the other errors.
Err(kind, at) == [kind |-> kind, at |-> at, try |-> 0]

\* An errReadingBody that is always the one of the chunk's first attempt.
BodyErr_FirstAttempt(at, try) == [kind |-> "errReadingBody", at |-> at, try |-> 0]

\* A GetObject that returns no error when its context is cancelled.
CancelErr_Nil(at) == [kind |-> "nil", at |-> 0, try |-> 0]

\* tryDownloadChunk, lines 753-756: the error GetObject(ctx, ...) returns when
\* ctx is cancelled.
CancelErr(at) == [kind |-> "Canceled", at |-> at, try |-> 0]

\* tryDownloadChunk, line 766: &errReadingBody{err: err}, the failure of the
\* body stream of attempt try of the chunk at.
BodyErr(at, try) == [kind |-> "errReadingBody", at |-> at, try |-> try]

Nil == Err("nil", 0)

\* A *DownloadObjectOutput (isNil: the nil pointer).  Only the fields the
\* downloader reads or sets are kept.
NilOut == [isNil |-> TRUE, ContentLength |-> 0, ContentRange |-> EmptyStr, PartsCount |-> 0, ETag |-> ""]

\* A dlChunk (the writer w is the one destination of the call).
Chunk(start, part, rng) == [start |-> start, cur |-> 0, part |-> part, withRange |-> rng]

\* ------------------------------------------------------------ environment
\* The byte at position p of version v of the object: every position of every
\* version holds a different value, and 0 is "never written".
Byte(v, p) == 100 * v + p + 1

ETagOf(v) == IF v = 1 THEN "e1" ELSE "e2"

\* Objects tried in part mode: every split of at most MaxObjSize bytes into at
\* most MaxParts parts with lengths in PartLens (the parts need not be of one
\* size; S3 only bounds them from below, the last one excepted).
Layouts ==
  {s \in UNION {[1..k -> PartLens] : k \in 1..MaxParts} : SumSeq(s) <= MaxObjSize}

\* Objects tried in byte-range mode: a ranged GET does not see the parts, so
\* one layout per size is enough.
Flat == {<<n>> : n \in 1..MaxObjSize}

\* Where part k of the object starts.
PartStart(lay, k) == SumSeq(SubSeq(lay, 1, k - 1))

\* The Content-Range header S3 sends: "bytes a-b/total".
FmtContentRange(a, b, total) ==
  <<"b", "y", "t", "e", "s", " ">> \o IntStr(a) \o <<"-">> \o IntStr(b) \o <<"/">> \o IntStr(total)

\* A Content-Range whose total is not a number (a misbehaving server or proxy).
BadContentRange(a, b) ==
  <<"b", "y", "t", "e", "s", " ">> \o IntStr(a) \o <<"-">> \o IntStr(b) \o <<"/", "*">>

\* How S3 reads a Range header "bytes=a-b" against an object of size bytes:
\* a header that is not of that form, or has b < a, is ignored (the whole
\* object is served); a >= size cannot be satisfied; b is clamped.
ServerRange(rng, size) ==
  LET eq == Split(rng, "=")
      ab == IF Len(eq) = 2 THEN Split(eq[2], "-") ELSE <<>>
      a  == IF Len(ab) = 2 THEN ParseInt(ab[1]) ELSE [ok |-> FALSE, val |-> 0]
      b  == IF Len(ab) = 2 THEN ParseInt(ab[2]) ELSE [ok |-> FALSE, val |-> 0]
      wellFormed == /\ Len(eq) = 2
                    /\ eq[1] = <<"b", "y", "t", "e", "s">>
                    /\ Len(ab) = 2
                    /\ a.ok /\ b.ok
                    /\ a.val <= b.val
  IN  IF ~wellFormed THEN [kind |-> "ignored", a |-> 0, b |-> size - 1]
      ELSE IF a.val >= size THEN [kind |-> "unsatisfiable", a |-> 0, b |-> 0]
      ELSE [kind |-> "partial", a |-> a.val, b |-> Min(b.val, size - 1)]

\* What S3 answers to GetObject(params) when the object is at version v:
\* an error kind ("nil" for success) and, on success, the span [a, b] of the
\* body and the response headers.
Serve(params, lay, v) ==
  LET size == SumSeq(lay)
      whole == [err |-> "nil", a |-> 0, b |-> size - 1, ContentRange |-> EmptyStr,
                ContentLength |-> size, PartsCount |-> 0, ETag |-> ETagOf(v)]
      fail(kind) == [whole EXCEPT !.err = kind]
      span(a, b, parts) ==
          [whole EXCEPT !.a = a, !.b = b, !.ContentLength = b - a + 1,
                        !.ContentRange = FmtContentRange(a, b, size), !.PartsCount = parts]
  IN  IF params.IfMatch \notin {"", "*", ETagOf(v)} THEN fail("PreconditionFailed")
      ELSE IF params.PartNumber # 0 /\ params.Range # EmptyStr THEN fail("InvalidRequest")
      ELSE IF params.PartNumber # 0 THEN
             IF params.PartNumber > Len(lay) THEN fail("InvalidPartNumber")
             ELSE LET a == PartStart(lay, params.PartNumber)
                  IN  span(a, a + lay[params.PartNumber] - 1,
                           IF Len(lay) > 1 THEN Len(lay) ELSE 0)
      ELSE IF params.Range # EmptyStr THEN
             LET r == ServerRange(params.Range, size)
             IN  IF r.kind = "unsatisfiable" THEN fail("InvalidRange")
                 ELSE IF r.kind = "ignored" THEN whole
                 ELSE span(r.a, r.b, 0)
      ELSE whole

\* ------------------------------------------------------------------ state
VARIABLES
  in,       \* the DownloadObjectInput: PartNumber, Range, VersionID, IfMatch
  options,  \* the Options: Concurrency, PartSizeBytes, PartBodyMaxRetries, GetObjectType
  object,   \* the remote side: the object's part layout and current version, the
            \* number of failures injected so far, and how the fetcher fails ("any":
            \* as it likes; "failFirst": the body stream of every chunk fails on the
            \* first attempt and only there; "failAll": the body stream of a chunk
            \* either is read whole at the first attempt or fails at every attempt;
            \* "lax": nothing fails, and the service does not enforce If-Match)
  d,        \* the downloader's fields
  m,        \* locals of download: which first fetch it made, i, total, partSize
  th,       \* per goroutine (0: the caller's, 1..: workers): pc and downloadChunk's frame
  ch,       \* the channel of dlChunk: its buffer and whether it is closed
  dest,     \* the destination WriterAt: position -> byte written there
  ret,      \* what download returned (or that it panicked)
  g         \* history: requests issued, values assigned to d.err, GetObject
            \* calls that failed at call level, chunks whose body stream failed
            \* on the last attempt allowed, whether the first response declared
            \* a Content-Range with an unreadable total, the bytes copied by the
            \* attempts that read their body to the end, the values totalBytes
            \* took after init, the metadata of the first chunk response that
            \* was read to the end

vars == <<in, options, object, d, m, th, ch, dest, ret, g>>

Main == 0

\* No write lands past this position (a chunk starts below MaxObjSize and is
\* at most a whole object long).
DestTop == 2 * MaxObjSize

\* Goroutine slots: the caller's, and one per worker that may be started.
Threads == 0..(MaxConcurrency + 1)

\* The explicit Range inputs tried: none, two well-formed ones, and one of each
\* malformed shape (no "=", no "-", a start or an end that is not a number).
RangeInputs ==
  { EmptyStr,
    FmtRange(1, 2),
    FmtRange(1, 4),
    <<"b", "y", "t", "e", "s">>,
    <<"b", "y", "t", "e", "s", "=", "1">>,
    <<"b", "y", "t", "e", "s", "=", "x", "-", "2">>,
    <<"b", "y", "t", "e", "s", "=", "1", "-">> }

\* The VersionID and IfMatch inputs tried: none; a caller's IfMatch alone; a
\* pinned version with a caller's IfMatch.
Headers == {<<"", "">>, <<"", "*">>, <<"v1", "*">>}

Frame0 == [pc |-> "idle", chunk |-> Chunk(0, 0, EmptyStr),
           params |-> [PartNumber |-> 0, Range |-> EmptyStr, IfMatch |-> "", VersionId |-> ""],
           retry |-> 0, err |-> Nil]

Init ==
  /\ in \in [PartNumber : 0..2, Range : RangeInputs, VersionID : {"", "v1"}, IfMatch : {"", "*"}]
  /\ <<in.VersionID, in.IfMatch>> \in Headers
  /\ options \in [Concurrency : 0..MaxConcurrency,
                  PartSizeBytes : PartSizes,
                  PartBodyMaxRetries : RetryChoices,
                  GetObjectType : {"RANGES", "PARTS"}]
  /\ object \in [layout : IF options.GetObjectType = "PARTS" THEN Layouts ELSE Flat,
                 version : {1}, faults : {0}, fetcher : {"any"}]
  /\ d = [offset |-> 0, pos |-> 0, totalBytes |-> 0, written |-> 0, etag |-> "",
          err |-> Nil, out |-> NilOut, totalBytesOnce |-> FALSE, etagOnce |-> FALSE]
  /\ m = [kind |-> "none", i |-> 0, total |-> 0, partSize |-> 0, PartsCount |-> 0]
  /\ th = [t \in Threads |-> IF t = Main THEN [Frame0 EXCEPT !.pc = "init"] ELSE Frame0]
  /\ ch = [buf |-> <<>>, closed |-> FALSE]
  /\ dest = [p \in 0..DestTop |-> 0]
  /\ ret = [state |-> "running", out |-> NilOut, err |-> Nil]
  /\ g = [log |-> {}, nFetch |-> 0, errs |-> <<>>, callErrs |-> {}, exhausted |-> {}, badFirst |-> FALSE, copied |-> 0, totals |-> <<>>, firstOut |-> NilOut]

\* ------------------------------------------------- downloader's small methods
\* A setErr that clears an error already recorded.
setErr_ClearRecorded(dd, e) == [dd EXCEPT !.err = IF @ # Nil THEN Nil ELSE e]

\* setErr: d.err = e, under the mutex.  The assignment is unconditional.
setErr(dd, e) == [dd EXCEPT !.err = e]

\* A setOutput that keeps the last output.
setOutput_KeepLast(dd, resp) == [dd EXCEPT !.out = resp]

\* setOutput: keeps the first non-nil output.
setOutput(dd, resp) == IF ~dd.out.isNil THEN dd ELSE [dd EXCEPT !.out = resp]

\* incrWritten
incrWritten(dd, n) == [dd EXCEPT !.written = @ + n]

\* A setTotalBytes that takes the length of the response for the total.
setTotalBytes_ContentLength(dd, resp) == [dd EXCEPT !.totalBytes = resp.ContentLength]

\* A setTotalBytes that takes the total of the Content-Range for the last
\* offset and adds one.
setTotalBytes_OffByOne(dd, resp) ==
  IF dd.totalBytes >= 0 THEN dd
  ELSE IF resp.ContentRange = EmptyStr THEN [dd EXCEPT !.totalBytes = resp.ContentLength]
  ELSE LET parts == Split(resp.ContentRange, "/")
           total == ParseInt(parts[Len(parts)])
       IN  IF ~total.ok THEN [dd EXCEPT !.err = Err("ParseError", 0)]
           ELSE [dd EXCEPT !.totalBytes = total.val + 1]

\* setTotalBytes, run inside totalBytesOnce.Do on the first response.
setTotalBytes(dd, resp) ==
  IF dd.totalBytes >= 0 THEN dd
  ELSE IF resp.ContentRange = EmptyStr THEN [dd EXCEPT !.totalBytes = resp.ContentLength]
  ELSE LET parts == Split(resp.ContentRange, "/")
           total == ParseInt(parts[Len(parts)])
       IN  IF ~total.ok THEN [dd EXCEPT !.err = Err("ParseError", 0)]
           ELSE [dd EXCEPT !.totalBytes = total.val]

\* A byteRange that never clamps the end of the range to the total size.
byteRange_NoClamp(dd) == FmtRange(dd.pos, dd.pos + options.PartSizeBytes - 1)

\* byteRange: the Range header of the chunk at d.pos.
byteRange(dd) ==
  IF dd.totalBytes >= 0
  THEN FmtRange(dd.pos, Min(dd.totalBytes - 1, dd.pos + options.PartSizeBytes - 1))
  ELSE FmtRange(dd.pos, dd.pos + options.PartSizeBytes - 1)

\* A getDownloadRange that returns (start, end).
getDownloadRange_InclusiveEnd ==
  LET eq == Split(in.Range, "=")
      parts == IF Len(eq) >= 2 THEN Split(eq[2], "-") ELSE <<>>
      start == IF Len(parts) >= 1 THEN ParseInt(parts[1]) ELSE [ok |-> FALSE, val |-> 0]
      end   == IF Len(parts) >= 2 THEN ParseInt(parts[2]) ELSE [ok |-> FALSE, val |-> 0]
  IN  IF Len(eq) < 2 THEN [outcome |-> "panic", pos |-> 0, total |-> 0]
      ELSE IF ~start.ok THEN [outcome |-> "error", pos |-> 0, total |-> 0]
      ELSE IF Len(parts) < 2 THEN [outcome |-> "panic", pos |-> 0, total |-> 0]
      ELSE IF ~end.ok THEN [outcome |-> "error", pos |-> 0, total |-> 0]
      ELSE [outcome |-> "ok", pos |-> start.val, total |-> end.val]

\* getDownloadRange: (start, end + 1) of in.Range.  outcome "panic" is an index
\* out of range on the result of strings.Split; "error" sets d.err and
\* yields (0, 0).
getDownloadRange ==
  LET eq == Split(in.Range, "=")
      parts == IF Len(eq) >= 2 THEN Split(eq[2], "-") ELSE <<>>
      start == IF Len(parts) >= 1 THEN ParseInt(parts[1]) ELSE [ok |-> FALSE, val |-> 0]
      end   == IF Len(parts) >= 2 THEN ParseInt(parts[2]) ELSE [ok |-> FALSE, val |-> 0]
  IN  IF Len(eq) < 2 THEN [outcome |-> "panic", pos |-> 0, total |-> 0]
      ELSE IF ~start.ok THEN [outcome |-> "error", pos |-> 0, total |-> 0]
      ELSE IF Len(parts) < 2 THEN [outcome |-> "panic", pos |-> 0, total |-> 0]
      ELSE IF ~end.ok THEN [outcome |-> "error", pos |-> 0, total |-> 0]
      ELSE [outcome |-> "ok", pos |-> start.val, total |-> end.val + 1]

\* An init that does not look at the retry option.
initOk_SizeOnly == options.PartSizeBytes >= minPartSizeBytes

\* init: the configuration check.
initOk == /\ options.PartSizeBytes >= minPartSizeBytes
          /\ options.PartBodyMaxRetries >= 0

\* A request that never takes the captured etag.
Params_KeepCallerIfMatch(dd, chunk) ==
  [PartNumber |-> chunk.part,
   Range |-> chunk.withRange,
   IfMatch |-> in.IfMatch,
   VersionId |-> in.VersionID]

\* downloadChunk, lines 706-715: the request of a chunk.  mapGetObjectInput
\* copies IfMatch and VersionId from the input (and neither Range nor
\* PartNumber); the chunk adds its part and range; the captured etag replaces
\* IfMatch when no version is pinned.
Params(dd, chunk) ==
  [PartNumber |-> chunk.part,
   Range |-> chunk.withRange,
   IfMatch |-> IF in.VersionID = "" /\ dd.etag # "" THEN dd.etag ELSE in.IfMatch,
   VersionId |-> in.VersionID]

\* The frame of a goroutine entering downloadChunk's retry loop.
Enter(dd, chunk) ==
  [pc |-> "start", chunk |-> chunk, params |-> Params(dd, chunk), retry |-> 0, err |-> Nil]

\* A fan-out that starts one worker too many.
NumWorkers_OneMore == options.Concurrency + 1

\* The number of workers fan-out starts, and the capacity of the channel.
NumWorkers == options.Concurrency

\* A channel with room for one descriptor more than Concurrency.
ChanCap_OneMore == options.Concurrency + 1

\* make(chan dlChunk, d.options.Concurrency) (587, 614).
ChanCap == options.Concurrency

\* Starting the workers: each begins at its receive.
Spawn(frames) ==
  [t \in Threads |-> IF t \in 1..NumWorkers THEN [Frame0 EXCEPT !.pc = "recv"] ELSE frames[t]]

\* The return of download.
Return(out, err) == [state |-> "returned", out |-> out, err |-> err]

Panic == [state |-> "panicked", out |-> NilOut, err |-> Nil]

\* download, lines 636-642.
Finalize(dd) ==
  IF dd.err # Nil THEN Return(NilOut, dd.err)
  ELSE IF dd.out.isNil THEN Panic
  ELSE Return([dd.out EXCEPT !.ContentLength = dd.written,
                             !.ContentRange = FmtRange(dd.offset, dd.totalBytes - 1)], Nil)

\* mapFromGetObjectOutput: the response's headers as a DownloadObjectOutput.
mapFromGetObjectOutput(resp) ==
  [isNil |-> FALSE, ContentLength |-> resp.ContentLength, ContentRange |-> resp.ContentRange,
   PartsCount |-> resp.PartsCount, ETag |-> resp.ETag]

\* History: every value assigned to d.err, in order.
Record(dOld, dNew) ==
  [g EXCEPT !.errs = IF dNew.err # dOld.err THEN Append(@, dNew.err) ELSE @]

\* History: the attempt of goroutine t failed at call level with error kind.
RecordCallError(gg, t, kind) ==
  [gg EXCEPT !.callErrs = @ \cup {[start |-> th[t].chunk.start, retry |-> th[t].retry,
                                    kind |-> kind]}]

\* History: the body stream of goroutine t's attempt failed; the chunk is
\* exhausted when that was its last attempt.
RecordBodyError(gg, t) ==
  [gg EXCEPT !.exhausted = IF th[t].retry + 1 >= options.PartBodyMaxRetries
                           THEN @ \cup {th[t].chunk.start} ELSE @]

\* History: the first response declared a Content-Range whose total is not a
\* number.
RecordBadTotal(gg, bad) == [gg EXCEPT !.badFirst = @ \/ bad]

\* History: an attempt read its whole body, n bytes; out is the metadata of
\* its response.
RecordCopied(gg, n, out) ==
  [gg EXCEPT !.copied = @ + n, !.firstOut = IF @.isNil THEN out ELSE @]

\* History: every value d.totalBytes takes after init made it -1, in order.
RecordTotal(gg, dOld, dNew) ==
  [gg EXCEPT !.totals = IF dNew.totalBytes # dOld.totalBytes THEN Append(@, dNew.totalBytes) ELSE @]

\* ---------------------------------------------------------------- actions
\* What the caller of downloadChunk does with its result (output, err), dd
\* being the downloader's fields when downloadChunk returns.
\*   singleDownload (659-667), getChunk and the rest of download up to the
\*   start of the workers (690-702, 580-591, 611-618), downloadPart (680-684).
Continue(t, dd, output, err) ==
  IF t # Main THEN
    /\ d' = IF err # Nil THEN setErr(dd, err) ELSE setOutput(dd, output)
    /\ th' = [th EXCEPT ![t] = [Frame0 EXCEPT !.pc = "recv"]]
    /\ UNCHANGED <<m, ch, ret>>
  ELSE IF m.kind = "single" THEN
    /\ d' = dd
    /\ ret' = IF err # Nil THEN Return(NilOut, err) ELSE Return(output, Nil)
    /\ th' = [th EXCEPT ![Main].pc = "done"]
    /\ UNCHANGED <<m, ch>>
  ELSE IF err = Nil /\ output.isNil THEN
    \* getChunk, line 700: output.ContentLength on a nil output
    /\ d' = dd
    /\ ret' = Panic
    /\ th' = [th EXCEPT ![Main].pc = "done"]
    /\ UNCHANGED <<m, ch>>
  ELSE
    LET d1 == IF err # Nil THEN setErr(dd, err)
              ELSE [setOutput(dd, output) EXCEPT !.pos = @ + output.ContentLength]
    IN  /\ d' = d1
        /\ IF options.GetObjectType = "PARTS" THEN
             IF d1.err # Nil THEN
               \* line 582: return output, d.err
               /\ ret' = Return(output, d1.err)
               /\ th' = [th EXCEPT ![Main].pc = "done"]
               /\ UNCHANGED <<m, ch>>
             ELSE IF output.PartsCount > 1 THEN
               /\ m' = [m EXCEPT !.kind = "fanout", !.partSize = output.ContentLength,
                                 !.i = 2, !.PartsCount = output.PartsCount]
               /\ th' = [Spawn(th) EXCEPT ![Main].pc = "pcheck"]
               /\ UNCHANGED <<ch, ret>>
             ELSE
               /\ ret' = Finalize(d1)
               /\ th' = [th EXCEPT ![Main].pc = "done"]
               /\ UNCHANGED <<m, ch>>
           ELSE
             /\ m' = [m EXCEPT !.kind = "fanout", !.total = d1.totalBytes]
             /\ th' = [Spawn(th) EXCEPT ![Main].pc = "pcheck"]
             /\ UNCHANGED <<ch, ret>>

\* A downloadChunk that never captures the identity tag.
AfterChunk_NoEtag(t, dd, output, n, err) == Continue(t, incrWritten(dd, n), output, err)

\* A downloadChunk that takes the identity tag of every response.
AfterChunk_EtagOfLast(t, dd, output, n, err) ==
  LET d1 == incrWritten(dd, n)
      d2 == IF ~output.isNil
            THEN [d1 EXCEPT !.etag = output.ETag, !.etagOnce = TRUE]
            ELSE d1
  IN  Continue(t, d2, output, err)

\* downloadChunk, lines 739-749, then the caller's continuation.
AfterChunk(t, dd, output, n, err) ==
  LET d1 == incrWritten(dd, n)
      d2 == IF ~output.isNil /\ ~d1.etagOnce
            THEN [d1 EXCEPT !.etag = output.ETag, !.etagOnce = TRUE]
            ELSE d1
  IN  Continue(t, d2, output, err)

\* A downloadChunk that treats a call-level error like a body-stream failure:
\* it keeps the error and goes round the loop again.
AfterCallError_Retry(t, e) ==
  /\ d' = d
  /\ th' = [th EXCEPT ![t].pc = "start", ![t].retry = @ + 1, ![t].err = e]
  /\ UNCHANGED <<m, ch, ret>>

\* downloadChunk, lines 730-734: an error of tryDownloadChunk that is not an
\* errReadingBody leaves the loop at once, return nil, err.
AfterCallError(t, e) == Continue(t, d, NilOut, e)

\* download, lines 571-579: the calls that go to singleDownload.
UseSingleDownload ==
  \/ in.PartNumber > 0
  \/ options.GetObjectType = "PARTS" /\ in.Range # EmptyStr

\* download, lines 558-611: init, the choice of the path, and the chunk of the
\* first fetch.
Start ==
  /\ th[Main].pc = "init"
  /\ ret.state = "running"
  /\ UNCHANGED <<in, options, object, ch, dest>>
  /\ IF ~initOk THEN
       /\ ret' = Return(NilOut, Err("ConfigError", 0))
       /\ th' = [th EXCEPT ![Main].pc = "done"]
       /\ UNCHANGED <<d, m, g>>
     ELSE
       LET d1 == [d EXCEPT !.totalBytes = 0 - 1]
           r  == getDownloadRange
           d2 == [d1 EXCEPT !.pos = r.pos, !.totalBytes = r.total, !.offset = r.pos,
                            !.err = IF r.outcome = "error" THEN Err("ParseError", 0) ELSE @]
       IN  IF UseSingleDownload THEN
             /\ d' = d1
             /\ m' = [m EXCEPT !.kind = "single"]
             /\ th' = [th EXCEPT ![Main] = Enter(d1, Chunk(0, 0, EmptyStr))]
             /\ UNCHANGED <<ret, g>>
           ELSE IF options.GetObjectType = "PARTS" THEN
             /\ d' = d1
             /\ m' = [m EXCEPT !.kind = "probe"]
             /\ th' = [th EXCEPT ![Main] = Enter(d1, Chunk(d1.pos - d1.offset, 1, EmptyStr))]
             /\ UNCHANGED <<ret, g>>
           ELSE IF in.Range = EmptyStr THEN
             /\ d' = d1
             /\ m' = [m EXCEPT !.kind = "probe"]
             /\ th' = [th EXCEPT ![Main] = Enter(d1, Chunk(d1.pos - d1.offset, 0, byteRange(d1)))]
             /\ UNCHANGED <<ret, g>>
           ELSE IF r.outcome = "panic" THEN
             /\ d' = d1
             /\ ret' = Panic
             /\ th' = [th EXCEPT ![Main].pc = "done"]
             /\ UNCHANGED <<m, g>>
           ELSE
             /\ d' = d2
             /\ m' = [m EXCEPT !.kind = "probe"]
             /\ th' = [th EXCEPT ![Main] = Enter(d2, Chunk(d2.pos - d2.offset, 0, byteRange(d2)))]
             /\ g' = RecordTotal(Record(d, d2), d1, d2)
             /\ UNCHANGED ret

\* A retry loop that allows one attempt more than PartBodyMaxRetries.
MoreAttempts_OneMore(t) == th[t].retry <= options.PartBodyMaxRetries

\* downloadChunk, line 720: the loop condition retry < PartBodyMaxRetries.
MoreAttempts(t) == th[t].retry < options.PartBodyMaxRetries

\* The head of downloadChunk's retry loop (line 720): another GetObject call
\* is issued, or the loop is over and downloadChunk returns what it holds.
Issue(t) ==
  /\ th[t].pc = "start"
  /\ ret.state = "running"
  /\ UNCHANGED <<in, options, object, dest>>
  /\ IF MoreAttempts(t) THEN
       LET entry == [start |-> th[t].chunk.start,
                     retry |-> th[t].retry,
                     params |-> th[t].params,
                     worker |-> t # Main,
                     etag |-> d.etag,
                     afterErr |-> d.err # Nil]
       IN  IF object.fetcher = "cancelled" THEN
             \* GetObject returns the context's error without a request
             /\ AfterCallError(t, CancelErr(th[t].chunk.start))
             /\ g' = [RecordCallError(Record(d, d'), t, "Canceled")
                        EXCEPT !.nFetch = @ + 1, !.log = @ \cup {entry}]
           ELSE
             /\ th' = [th EXCEPT ![t].pc = "inflight"]
             /\ g' = [g EXCEPT !.nFetch = @ + 1, !.log = @ \cup {entry}]
             /\ UNCHANGED <<d, m, ch, ret>>
     ELSE
       /\ AfterChunk(t, d, NilOut, 0, th[t].err)
       /\ g' = Record(d, d')

\* dlChunk.Write through io.Copy: the bytes [a, a+k) of the object land at
\* start + cur onwards.
WriteAt(dst, chunk, a, k, v) ==
  [p \in DOMAIN dst |->
     IF p >= chunk.start + chunk.cur /\ p < chunk.start + chunk.cur + k
     THEN Byte(v, a + (p - chunk.start - chunk.cur))
     ELSE dst[p]]

\* A retry that goes on writing where the failed attempt stopped.
CurAfterFailure_Keep(k) == k

\* Line 736: the cursor of the chunk after a failed attempt that wrote k bytes.
CurAfterFailure(k) == 0

\* tryDownloadChunk (752-770) and the rest of the loop body (722-736): the
\* GetObject call of goroutine t completes.
Complete(t) ==
  /\ th[t].pc = "inflight"
  /\ ret.state = "running"
  /\ UNCHANGED <<in, options>>
  /\ LET v == IF in.VersionID # "" THEN 1 ELSE object.version
         seen == IF object.fetcher = "lax" THEN [th[t].params EXCEPT !.IfMatch = ""]
                 ELSE th[t].params
         resp == Serve(seen, object.layout, v)
         c == th[t].chunk
         len == resp.b - resp.a + 1
         fault(b) == [object EXCEPT !.faults = IF b THEN @ + 1 ELSE @]
         mayFail == object.fetcher = "any" /\ object.faults < MaxFaults
         failFirst == object.fetcher = "failFirst" /\ th[t].retry = 0
         failAll == object.fetcher = "failAll"
         cancelled == object.fetcher = "cancelled"
     IN  \/ \* the call fails: the service's error, the transport's, or the
            \* cancelled context's
            /\ \E kind \in IF cancelled THEN {"Canceled"}
                           ELSE {resp.err} \cup (IF mayFail THEN {"Transport"} ELSE {}) :
                 /\ kind # "nil"
                 /\ AfterCallError(t, IF kind = "Canceled" THEN CancelErr(c.start)
                                      ELSE Err(kind, c.start))
                 /\ object' = fault(kind = "Transport")
                 /\ g' = RecordCallError(Record(d, d'), t, kind)
            /\ dest' = dest
         \/ \* the call succeeds; the body is copied whole (k = len) or the
            \* stream fails after k bytes
            /\ resp.err = "nil"
            /\ \E bad \in IF mayFail /\ ~d.totalBytesOnce THEN BOOLEAN ELSE {FALSE} :
               \E k \in IF failFirst \/ cancelled THEN 0..(len - 1)
                        ELSE IF failAll THEN (IF th[t].retry = 0 THEN 0..len ELSE 0..(len - 1))
                        ELSE (IF mayFail /\ ~bad THEN 0..(len - 1) ELSE {}) \cup {len} :
                 LET r2 == IF bad THEN [resp EXCEPT !.ContentRange = BadContentRange(resp.a, resp.b)]
                           ELSE resp
                     d1 == IF d.totalBytesOnce THEN d
                           ELSE [setTotalBytes(d, r2) EXCEPT !.totalBytesOnce = TRUE]
                 IN  /\ dest' = WriteAt(dest, c, resp.a, k, v)
                     /\ object' = fault(mayFail /\ (bad \/ k < len))
                     /\ IF k = len THEN
                          AfterChunk(t, d1, mapFromGetObjectOutput(r2), len, Nil)
                        ELSE
                          /\ d' = d1
                          /\ th' = [th EXCEPT ![t].pc = "start",
                                              ![t].retry = @ + 1,
                                              ![t].err = BodyErr(c.start, th[t].retry),
                                              ![t].chunk.cur = CurAfterFailure(k)]
                          /\ UNCHANGED <<m, ch, ret>>
                     /\ g' = RecordTotal(
                                RecordBadTotal(IF k = len THEN RecordCopied(Record(d, d'), len, mapFromGetObjectOutput(r2))
                                               ELSE RecordBodyError(Record(d, d'), t), bad),
                                d, d1)

\* A producer that queues chunks whether or not an error is recorded.
ProducerCheck_IgnoresErr ==
  /\ th[Main].pc = "pcheck"
  /\ ret.state = "running"
  /\ LET more == IF options.GetObjectType = "PARTS"
                 THEN m.i <= m.PartsCount
                 ELSE d.pos < m.total
     IN  IF more THEN
           /\ th' = [th EXCEPT ![Main].pc = "psend"]
           /\ ch' = ch
         ELSE
           /\ th' = [th EXCEPT ![Main].pc = "wait"]
           /\ ch' = [ch EXCEPT !.closed = TRUE]
  /\ UNCHANGED <<in, options, object, d, m, dest, ret, g>>

\* The head of the producer's loop (593-597 in part mode, 621-624 in byte-range
\* mode): go on to send the next chunk, or leave the loop and close the
\* channel (602, 632).
ProducerCheck ==
  /\ th[Main].pc = "pcheck"
  /\ ret.state = "running"
  /\ LET more == IF options.GetObjectType = "PARTS"
                 THEN m.i <= m.PartsCount /\ d.err = Nil
                 ELSE d.err = Nil /\ d.pos < m.total
     IN  IF more THEN
           /\ th' = [th EXCEPT ![Main].pc = "psend"]
           /\ ch' = ch
         ELSE
           /\ th' = [th EXCEPT ![Main].pc = "wait"]
           /\ ch' = [ch EXCEPT !.closed = TRUE]
  /\ UNCHANGED <<in, options, object, d, m, dest, ret, g>>

\* A producer that sends every part at the destination position of part 2.
NextChunk_NoAdvance ==
  IF options.GetObjectType = "PARTS"
  THEN Chunk(m.partSize, m.i, EmptyStr)
  ELSE Chunk(d.pos - d.offset, 0, byteRange(d))

\* The chunk the producer sends next (598, 627).
NextChunk ==
  IF options.GetObjectType = "PARTS"
  THEN Chunk(d.pos - d.offset, m.i, EmptyStr)
  ELSE Chunk(d.pos - d.offset, 0, byteRange(d))

\* ch <- chunk (598-599, 627-628): blocks while the channel is full.
ProducerSend ==
  /\ th[Main].pc = "psend"
  /\ ret.state = "running"
  /\ Len(ch.buf) < ChanCap
  /\ ch' = [ch EXCEPT !.buf = Append(@, NextChunk)]
  /\ d' = [d EXCEPT !.pos = @ + IF options.GetObjectType = "PARTS"
                                THEN m.partSize ELSE options.PartSizeBytes]
  /\ m' = [m EXCEPT !.i = IF options.GetObjectType = "PARTS" THEN @ + 1 ELSE @]
  /\ th' = [th EXCEPT ![Main].pc = "pcheck"]
  /\ UNCHANGED <<in, options, object, dest, ret, g>>

\* A download that does not wait for its workers.
AllWorkersDone_NoWait == TRUE

\* d.wg.Wait() returns: every worker has called wg.Done.
AllWorkersDone == \A w \in 1..NumWorkers : th[w].pc = "exit"

\* d.wg.Wait() (603, 633) and the end of download (636-642).
Join ==
  /\ th[Main].pc = "wait"
  /\ ret.state = "running"
  /\ AllWorkersDone
  /\ ret' = Finalize(d)
  /\ th' = [th EXCEPT ![Main].pc = "done"]
  /\ UNCHANGED <<in, options, object, d, m, ch, dest, g>>

\* A receive that leaves the descriptor it takes in the channel.
Receive_NoDequeue(w) ==
  /\ w # Main
  /\ th[w].pc = "recv"
  /\ ret.state = "running"
  /\ \A u \in 1..(w - 1) : th[u].pc # "recv"
  /\ \/ /\ ch.buf # <<>>
        /\ th' = [th EXCEPT ![w].pc = "check", ![w].chunk = Head(ch.buf)]
        /\ ch' = IF ch.closed THEN [ch EXCEPT !.buf = Tail(@)] ELSE ch
     \/ /\ ch.buf = <<>>
        /\ ch.closed
        /\ th' = [th EXCEPT ![w].pc = "exit"]
        /\ ch' = ch
  /\ UNCHANGED <<in, options, object, d, m, dest, ret, g>>

\* downloadPart, lines 672-675: receive a chunk, or leave when the channel is
\* closed and empty.  Workers blocked on the receive are interchangeable (their
\* frames are equal), so the one with the lowest number is the one that moves.
Receive(w) ==
  /\ w # Main
  /\ th[w].pc = "recv"
  /\ ret.state = "running"
  /\ \A u \in 1..(w - 1) : th[u].pc # "recv"
  /\ \/ /\ ch.buf # <<>>
        /\ th' = [th EXCEPT ![w].pc = "check", ![w].chunk = Head(ch.buf)]
        /\ ch' = [ch EXCEPT !.buf = Tail(@)]
     \/ /\ ch.buf = <<>>
        /\ ch.closed
        /\ th' = [th EXCEPT ![w].pc = "exit"]
        /\ ch' = ch
  /\ UNCHANGED <<in, options, object, d, m, dest, ret, g>>

\* A downloadPart that downloads every chunk it receives.
CheckErr_NoSkip(w) ==
  /\ w # Main
  /\ th[w].pc = "check"
  /\ ret.state = "running"
  /\ th' = [th EXCEPT ![w] = Enter(d, @.chunk)]
  /\ UNCHANGED <<in, options, object, d, m, ch, dest, ret, g>>

\* downloadPart, lines 676-679: skip the chunk when an error is recorded, else
\* enter downloadChunk.
CheckErr(w) ==
  /\ w # Main
  /\ th[w].pc = "check"
  /\ ret.state = "running"
  /\ th' = [th EXCEPT ![w] = IF d.err # Nil THEN [Frame0 EXCEPT !.pc = "recv"]
                             ELSE Enter(d, @.chunk)]
  /\ UNCHANGED <<in, options, object, d, m, ch, dest, ret, g>>

\* The environment: the object is overwritten (once) after the first fetch of
\* the download (an overwrite before the identity tag is captured is a download
\* of the new version).  A pinned VersionID always reads the version it names.
Mutate ==
  /\ ret.state = "running"
  /\ object.fetcher \in {"any", "lax"}
  /\ d.etag # ""
  /\ in.VersionID = ""
  /\ object.version = 1
  /\ object' = [object EXCEPT !.version = 2]
  /\ UNCHANGED <<in, options, d, m, th, ch, dest, ret, g>>

\* ------------------------------------------- accesses to the shared fields
\* One access of a field of the downloader: a read or a write, made by the
\* holder of d.m or without the mutex.
Access(field, write, locked) == [field |-> field, write |-> write, locked |-> locked]

\* getErr (852-857), setErr (859-864), setOutput (814-822) and incrWritten
\* (772-777) lock d.m around their accesses.
getErr_Accesses == {Access("err", FALSE, TRUE)}

setErr_Accesses == {Access("err", TRUE, TRUE)}

setOutput_Accesses(dd) ==
  {Access("out", FALSE, TRUE)} \cup (IF dd.out.isNil THEN {Access("out", TRUE, TRUE)} ELSE {})

\* An incrWritten that does not take the mutex.
incrWritten_NoLock == {Access("written", FALSE, FALSE), Access("written", TRUE, FALSE)}

incrWritten_Accesses == {Access("written", FALSE, TRUE), Access("written", TRUE, TRUE)}

\* setTotalBytes (792-812) takes no lock: it reads d.totalBytes and, when it
\* is unknown, writes d.totalBytes or d.err.
setTotalBytes_Accesses(dd) ==
  {Access("totalBytes", FALSE, FALSE)}
    \cup (IF dd.totalBytes >= 0 THEN {}
          ELSE {Access("totalBytes", TRUE, FALSE), Access("err", TRUE, FALSE)})

\* downloadChunk, line 713: d.etag is read, without the mutex, when the input
\* pins no version.
downloadChunk_Accesses == IF in.VersionID = "" THEN {Access("etag", FALSE, FALSE)} ELSE {}

\* downloadChunk, lines 745-747: the function of etagOnce.Do writes d.etag
\* without the mutex.
etagOnce_Accesses == {Access("etag", TRUE, FALSE)}

\* byteRange (845-850) reads d.totalBytes without the mutex.
byteRange_Accesses == {Access("totalBytes", FALSE, FALSE)}

\* The producer's loop head in byte-range mode reads d.pos (622); its send
\* reads d.pos and d.offset and then adds to d.pos (598-599, 627-628), all
\* without the mutex.
producerCheck_Accesses ==
  IF options.GetObjectType = "PARTS" THEN {} ELSE {Access("pos", FALSE, FALSE)}

producerSend_Accesses ==
  {Access("pos", FALSE, FALSE), Access("offset", FALSE, FALSE), Access("pos", TRUE, FALSE)}

\* The fields the mutex is there for.
SharedFields == {"totalBytes", "etag", "err", "out", "written"}

\* The worker goroutines exist: started (587-590, 614-618) and not yet
\* through wg.Done.
WorkersExist == \E w \in 1..NumWorkers : th[w].pc \notin {"idle", "exit"}

\* The accesses goroutine t makes in the step it takes.
AccessesOf(t) ==
  IF th'[t] = th[t] /\ ~(t = Main /\ ret' # ret) THEN {}
  ELSE IF th[t].pc = "check" THEN
    \* downloadPart 676-680
    getErr_Accesses \cup (IF th'[t].pc = "start" THEN downloadChunk_Accesses ELSE {})
  ELSE IF th[t].pc = "pcheck" THEN
    getErr_Accesses \cup (IF d.err = Nil THEN producerCheck_Accesses ELSE {})
  ELSE IF th[t].pc = "psend" THEN
    producerSend_Accesses
      \cup (IF options.GetObjectType = "PARTS" THEN {} ELSE byteRange_Accesses)
  ELSE IF th[t].pc \in {"start", "inflight"} THEN
    \* tryDownloadChunk 758-760, then, out of the retry loop, 739-747 and
    \* the caller's setErr or setOutput
    (IF ~d.totalBytesOnce /\ d'.totalBytesOnce THEN setTotalBytes_Accesses(d) ELSE {})
      \cup (IF th'[t].pc \in {"start", "inflight"} THEN {}
            ELSE incrWritten_Accesses
                   \cup (IF ~d.etagOnce /\ d'.etagOnce THEN etagOnce_Accesses ELSE {})
                   \cup (IF m.kind = "single" THEN {}
                         ELSE IF d'.err # d.err THEN setErr_Accesses
                         ELSE setOutput_Accesses(d)))
  ELSE {}

\* The download still has a chunk to fetch: a fetch is in flight or about to
\* be made, or a chunk is queued or about to be.
ChunksLeft ==
  \/ \E t \in Threads :
        \/ th[t].pc \in {"inflight", "check"}
        \/ th[t].pc = "start" /\ th[t].retry < options.PartBodyMaxRetries
  \/ ch.buf # <<>>
  \/ th[Main].pc = "psend"

\* The environment: the caller cancels the context of the call while the
\* download still has chunks to fetch.
Cancel ==
  /\ ret.state = "running"
  /\ object.fetcher = "cancellable"
  /\ ChunksLeft
  /\ object' = [object EXCEPT !.fetcher = "cancelled"]
  /\ UNCHANGED <<in, options, d, m, th, ch, dest, ret, g>>

Next ==
  \/ Start
  \/ \E t \in Threads : Issue(t)
  \/ \E t \in Threads : Complete(t)
  \/ ProducerCheck
  \/ ProducerSend
  \/ Join
  \/ \E w \in Threads : Receive(w)
  \/ \E w \in Threads : CheckErr(w)
  \/ Mutate

Spec == Init /\ [][Next]_vars

\* The same download against the fetcher whose body stream fails on the first
\* attempt of every chunk and succeeds afterwards (no other failure, no
\* overwrite of the object).
FailFirstInit ==
  /\ in \in [PartNumber : 0..2, Range : RangeInputs, VersionID : {"", "v1"}, IfMatch : {"", "*"}]
  /\ <<in.VersionID, in.IfMatch>> \in Headers
  /\ options \in [Concurrency : 0..MaxConcurrency,
                  PartSizeBytes : PartSizes,
                  PartBodyMaxRetries : RetryChoices,
                  GetObjectType : {"RANGES", "PARTS"}]
  /\ object \in [layout : IF options.GetObjectType = "PARTS" THEN Layouts ELSE Flat,
                 version : {1}, faults : {0}, fetcher : {"failFirst"}]
  /\ d = [offset |-> 0, pos |-> 0, totalBytes |-> 0, written |-> 0, etag |-> "",
          err |-> Nil, out |-> NilOut, totalBytesOnce |-> FALSE, etagOnce |-> FALSE]
  /\ m = [kind |-> "none", i |-> 0, total |-> 0, partSize |-> 0, PartsCount |-> 0]
  /\ th = [t \in Threads |-> IF t = Main THEN [Frame0 EXCEPT !.pc = "init"] ELSE Frame0]
  /\ ch = [buf |-> <<>>, closed |-> FALSE]
  /\ dest = [p \in 0..DestTop |-> 0]
  /\ ret = [state |-> "running", out |-> NilOut, err |-> Nil]
  /\ g = [log |-> {}, nFetch |-> 0, errs |-> <<>>, callErrs |-> {}, exhausted |-> {}, badFirst |-> FALSE, copied |-> 0, totals |-> <<>>, firstOut |-> NilOut]

FailFirstNext ==
  \/ Start
  \/ \E t \in Threads : Issue(t)
  \/ \E t \in Threads : Complete(t)
  \/ ProducerCheck
  \/ ProducerSend
  \/ Join
  \/ \E w \in Threads : Receive(w)
  \/ \E w \in Threads : CheckErr(w)

FailFirstSpec == FailFirstInit /\ [][FailFirstNext]_vars

\* The same download against the fetcher whose body stream, chunk by chunk,
\* either is read whole at the first attempt or fails at every attempt (no
\* other failure, no overwrite of the object).
FailAllInit ==
  /\ in \in [PartNumber : 0..2, Range : RangeInputs, VersionID : {"", "v1"}, IfMatch : {"", "*"}]
  /\ <<in.VersionID, in.IfMatch>> \in Headers
  /\ options \in [Concurrency : 0..MaxConcurrency,
                  PartSizeBytes : PartSizes,
                  PartBodyMaxRetries : RetryChoices,
                  GetObjectType : {"RANGES", "PARTS"}]
  /\ object \in [layout : IF options.GetObjectType = "PARTS" THEN Layouts ELSE Flat,
                 version : {1}, faults : {0}, fetcher : {"failAll"}]
  /\ d = [offset |-> 0, pos |-> 0, totalBytes |-> 0, written |-> 0, etag |-> "",
          err |-> Nil, out |-> NilOut, totalBytesOnce |-> FALSE, etagOnce |-> FALSE]
  /\ m = [kind |-> "none", i |-> 0, total |-> 0, partSize |-> 0, PartsCount |-> 0]
  /\ th = [t \in Threads |-> IF t = Main THEN [Frame0 EXCEPT !.pc = "init"] ELSE Frame0]
  /\ ch = [buf |-> <<>>, closed |-> FALSE]
  /\ dest = [p \in 0..DestTop |-> 0]
  /\ ret = [state |-> "running", out |-> NilOut, err |-> Nil]
  /\ g = [log |-> {}, nFetch |-> 0, errs |-> <<>>, callErrs |-> {}, exhausted |-> {}, badFirst |-> FALSE, copied |-> 0, totals |-> <<>>, firstOut |-> NilOut]

FailAllSpec == FailAllInit /\ [][FailFirstNext]_vars

\* The same download against a service that does not enforce If-Match, while
\* the object may be overwritten (no fetch fails).
LaxInit ==
  /\ in \in [PartNumber : 0..2, Range : RangeInputs, VersionID : {"", "v1"}, IfMatch : {"", "*"}]
  /\ <<in.VersionID, in.IfMatch>> \in Headers
  /\ options \in [Concurrency : 0..MaxConcurrency,
                  PartSizeBytes : PartSizes,
                  PartBodyMaxRetries : RetryChoices,
                  GetObjectType : {"RANGES", "PARTS"}]
  /\ object \in [layout : IF options.GetObjectType = "PARTS" THEN Layouts ELSE Flat,
                 version : {1}, faults : {0}, fetcher : {"lax"}]
  /\ d = [offset |-> 0, pos |-> 0, totalBytes |-> 0, written |-> 0, etag |-> "",
          err |-> Nil, out |-> NilOut, totalBytesOnce |-> FALSE, etagOnce |-> FALSE]
  /\ m = [kind |-> "none", i |-> 0, total |-> 0, partSize |-> 0, PartsCount |-> 0]
  /\ th = [t \in Threads |-> IF t = Main THEN [Frame0 EXCEPT !.pc = "init"] ELSE Frame0]
  /\ ch = [buf |-> <<>>, closed |-> FALSE]
  /\ dest = [p \in 0..DestTop |-> 0]
  /\ ret = [state |-> "running", out |-> NilOut, err |-> Nil]
  /\ g = [log |-> {}, nFetch |-> 0, errs |-> <<>>, callErrs |-> {}, exhausted |-> {}, badFirst |-> FALSE, copied |-> 0, totals |-> <<>>, firstOut |-> NilOut]

LaxSpec == LaxInit /\ [][Next]_vars

\* A download of a whole object, or of a sub-range inside the object, whose
\* context the caller may cancel; nothing else fails.
CancelInit ==
  /\ in \in [PartNumber : {0}, Range : {EmptyStr, FmtRange(1, 4)}, VersionID : {""}, IfMatch : {"", "*"}]
  /\ options \in [Concurrency : 0..MaxConcurrency,
                  PartSizeBytes : PartSizes,
                  PartBodyMaxRetries : RetryChoices,
                  GetObjectType : {"RANGES", "PARTS"}]
  /\ object \in [layout : IF options.GetObjectType = "PARTS" THEN Layouts ELSE Flat,
                 version : {1}, faults : {0}, fetcher : {"cancellable"}]
  /\ in.Range # EmptyStr => SumSeq(object.layout) >= 5
  /\ d = [offset |-> 0, pos |-> 0, totalBytes |-> 0, written |-> 0, etag |-> "",
          err |-> Nil, out |-> NilOut, totalBytesOnce |-> FALSE, etagOnce |-> FALSE]
  /\ m = [kind |-> "none", i |-> 0, total |-> 0, partSize |-> 0, PartsCount |-> 0]
  /\ th = [t \in Threads |-> IF t = Main THEN [Frame0 EXCEPT !.pc = "init"] ELSE Frame0]
  /\ ch = [buf |-> <<>>, closed |-> FALSE]
  /\ dest = [p \in 0..DestTop |-> 0]
  /\ ret = [state |-> "running", out |-> NilOut, err |-> Nil]
  /\ g = [log |-> {}, nFetch |-> 0, errs |-> <<>>, callErrs |-> {}, exhausted |-> {}, badFirst |-> FALSE, copied |-> 0, totals |-> <<>>, firstOut |-> NilOut]

CancelNext ==
  \/ Start
  \/ \E t \in Threads : Issue(t)
  \/ \E t \in Threads : Complete(t)
  \/ ProducerCheck
  \/ ProducerSend
  \/ Join
  \/ \E w \in Threads : Receive(w)
  \/ \E w \in Threads : CheckErr(w)
  \/ Cancel

CancelSpec == CancelInit /\ [][CancelNext]_vars

\* ---------------------------------------------------------------- claims
Returned == ret.state = "returned"

Succeeded == Returned /\ ret.err = Nil

Size == SumSeq(object.layout)

\* The call asks for the whole object (no part number, no sub-range).
WholeObject == in.PartNumber = 0 /\ in.Range = EmptyStr

\* The destination holds exactly the bytes of one version of the object.
HoldsObject ==
  \E v \in {1, 2} :
    \A p \in DOMAIN dest : dest[p] = IF p < Size THEN Byte(v, p) ELSE 0

InFlight == {t \in Threads : th[t].pc = "inflight"}

\* C1: a download of the whole object that returns success (Concurrency >= 1,
\* an accepted configuration) leaves in the destination exactly the object's
\* bytes, in byte-range mode and in part mode, parts of unequal size included.
C1_SuccessHoldsObject ==
  (Succeeded /\ WholeObject /\ initOk /\ options.Concurrency >= 1) => HoldsObject

\* C1, what does hold: the same in byte-range mode, and in part mode when
\* every part but the last has the length of the first.
UniformParts ==
  \A k \in 1..(Len(object.layout) - 1) : object.layout[k] = object.layout[1]

C1_HoldsWhenUniform ==
  (Succeeded /\ WholeObject /\ initOk /\ options.Concurrency >= 1 /\ UniformParts)
     => HoldsObject

\* C2: download returns either (result, nil) or (nil, error), never both and
\* never neither.
C2_ResultXorError == Returned => (ret.out.isNil <=> ret.err # Nil)

\* C3: d.err goes from nil to a value at most once, and the error returned is
\* the first one recorded.
C3_FirstErrorWins ==
  /\ Len(g.errs) <= 1
  /\ (Returned /\ g.errs # <<>>) => ret.err = g.errs[1]

\* C4: at most Concurrency chunk fetches execute at the same time
\* (Concurrency >= 1, as the interface requires).
C4_AtMostConcurrencyInFlight ==
  options.Concurrency >= 1 => Cardinality(InFlight) <= options.Concurrency

C4_Witness ==
  /\ options.Concurrency = 2
  /\ Cardinality(InFlight) = 2

\* Some goroutine of the running call can take a step: the guards of the
\* actions, goroutine by goroutine (the caller is blocked only on a full
\* channel or on wg.Wait, a worker only on an empty open channel).
SomeGoroutineCanStep ==
  /\ ret.state = "running"
  /\ \/ th[Main].pc \in {"init", "start", "inflight", "pcheck"}
     \/ th[Main].pc = "psend" /\ Len(ch.buf) < ChanCap
     \/ th[Main].pc = "wait" /\ AllWorkersDone
     \/ \E w \in Threads \ {Main} :
          \/ th[w].pc \in {"check", "start", "inflight"}
          \/ th[w].pc = "recv" /\ (ch.buf # <<>> \/ ch.closed)

\* C5: with Concurrency >= 1 the download call eventually returns.  No
\* behaviour visits a state twice (every step advances a goroutine, and a
\* goroutine loops only by consuming a chunk or an attempt), so when every
\* goroutine that can step does step and every GetObject call completes, the
\* call reaches a state where no goroutine can step: the claim is that every
\* such state is a return of download.
C5_EventuallyReturns ==
  (options.Concurrency >= 1 /\ ~SomeGoroutineCanStep) => Returned

\* C5, what does hold: where no goroutine can step the call has ended, by a
\* return or by a panic, so no goroutine stays blocked on the channel.
C5_EventuallyEnds ==
  (options.Concurrency >= 1 /\ ~SomeGoroutineCanStep) => ret.state # "running"

\* C6: a download that went through fan-out has returned only if the channel
\* is closed and every worker has left: no worker runs, no fetch is in flight
\* and none can start.
C6_ReturnAfterJoin ==
  (ret.state # "running" /\ m.kind = "fanout") =>
     /\ ch.closed
     /\ ch.buf = <<>>
     /\ \A w \in 1..options.Concurrency : th[w].pc = "exit"
     /\ \A t \in Threads : th[t].pc \in {"idle", "exit", "done"}

C6_Witness ==
  /\ Returned
  /\ m.kind = "fanout"
  /\ options.Concurrency = 2
  /\ Cardinality({e \in g.log : e.worker}) >= 2

\* C7: once the identity tag is captured, a request carries IfMatch = the tag
\* when the input pins no VersionID, and the caller's own IfMatch when it does;
\* every request of a worker is made after the capture.
C7_IfMatchIsCapturedTag ==
  \A e \in g.log :
    /\ (e.etag # "" /\ in.VersionID = "") => e.params.IfMatch = e.etag
    /\ in.VersionID # "" => e.params.IfMatch = in.IfMatch
    /\ e.worker => (e.etag # "" /\ e.etag = d.etag)

C7_Witness ==
  /\ in.VersionID = ""
  /\ in.IfMatch = "*"
  /\ \E e \in g.log : e.worker /\ e.params.IfMatch = "e1"

\* C8: when the first error recorded is a failed IfMatch precondition, the
\* download returns a precondition failure and no fetch starts once the error
\* is recorded.
C8_PreconditionFailureSurfaces ==
  (g.errs # <<>> /\ g.errs[1].kind = "PreconditionFailed") =>
     /\ \A e \in g.log : ~e.afterErr
     /\ Returned => ret.err.kind = "PreconditionFailed"

\* C9: with PartBodyMaxRetries = 2, against the fetcher that fails the body of
\* every chunk on its first attempt only, a download of the whole object that
\* ends has returned success, reports the object's size and has left the
\* object's bytes in the destination.
C9_RetryMasksOneFailure ==
  (ret.state # "running" /\ options.PartBodyMaxRetries = 2 /\ initOk /\ WholeObject) =>
     /\ Succeeded
     /\ ret.out.ContentLength = Size
     /\ HoldsObject

\* C9, what does hold: the same when every part but the last has the length of
\* the first (and in byte-range mode).
C9_HoldsWhenUniform ==
  (ret.state # "running" /\ options.PartBodyMaxRetries = 2 /\ initOk /\ WholeObject
     /\ UniformParts) =>
     /\ Succeeded
     /\ ret.out.ContentLength = Size
     /\ HoldsObject

\* C10: with PartBodyMaxRetries = 0, against a fetcher whose body stream fails,
\* the download ends by returning the body-stream error of a chunk, and no
\* chunk is requested twice.
C10_ZeroRetriesFailsAtOnce ==
  (ret.state # "running" /\ options.PartBodyMaxRetries = 0 /\ initOk) =>
     /\ Returned
     /\ ret.err.kind = "errReadingBody"
     /\ \A e \in g.log : e.retry = 0

\* C11: a GetObject call that fails at call level is the last attempt of its
\* chunk, whatever the number of attempts left, and its error is at once the
\* recorded error of the download (d.err, or the error returned when the chunk
\* is the single fetch of the call).
C11_CallErrorNotRetried ==
  \A f \in g.callErrs :
    /\ \A e \in g.log : e.start = f.start => e.retry <= f.retry
    /\ \/ \E i \in 1..Len(g.errs) : g.errs[i] = Err(f.kind, f.start)
       \/ ret.err = Err(f.kind, f.start)

C11_Witness ==
  /\ ret.state # "running"
  /\ \E f \in g.callErrs : f.retry + 1 < options.PartBodyMaxRetries

ChunksFetched == {e \in g.log : e.retry = 0}

\* C13: with PartNumber > 0, in both modes and for every Concurrency, no
\* worker is ever started and nothing is queued, every request is made by the
\* caller's goroutine for one and the same chunk, and a call that succeeds has
\* fetched exactly one chunk.
C13_SinglePartNeverParallel ==
  in.PartNumber > 0 =>
     /\ \A w \in Threads \ {Main} : th[w].pc = "idle"
     /\ ch.buf = <<>>
     /\ \A e \in g.log : ~e.worker /\ e.start = 0
     /\ Cardinality(ChunksFetched) <= 1
     /\ Succeeded => Cardinality(ChunksFetched) = 1

\* C13, what does hold: no worker, nothing queued, one chunk at most, always;
\* and exactly one chunk for a call that returns a result.
C13_NeverParallel ==
  in.PartNumber > 0 =>
     /\ \A w \in Threads \ {Main} : th[w].pc = "idle"
     /\ ch.buf = <<>>
     /\ \A e \in g.log : ~e.worker /\ e.start = 0
     /\ Cardinality(ChunksFetched) <= 1
     /\ (Returned /\ ~ret.out.isNil) => Cardinality(ChunksFetched) = 1

\* The bytes [a, a + n) of some version of the object, at 0 onwards, and
\* nothing else, are what the destination holds.
HoldsSpan(a, n) ==
  \E v \in {1, 2} :
    \A p \in DOMAIN dest : dest[p] = IF p < n THEN Byte(v, a + p) ELSE 0

\* C14: with PartNumber = k > 0 every request carries part number k, and a
\* call that succeeds has written the bytes of part k and no others.
C14_RequestCarriesPartNumber ==
  in.PartNumber > 0 =>
     /\ \A e \in g.log : e.params.PartNumber = in.PartNumber
     /\ (Succeeded /\ in.PartNumber <= Len(object.layout)) =>
           HoldsSpan(PartStart(object.layout, in.PartNumber), object.layout[in.PartNumber])

\* C15: in part mode with an explicit Range (and no part number) every request
\* is made by the caller's goroutine and carries the caller's Range, and a
\* call that succeeds with Range bytes=s-e has written the bytes s..e of the
\* object and no others.
C15_PartModeRangeIsRequested ==
  (options.GetObjectType = "PARTS" /\ in.Range # EmptyStr /\ in.PartNumber = 0) =>
     /\ \A e \in g.log : ~e.worker /\ e.params.Range = in.Range
     /\ Cardinality(ChunksFetched) <= 1
     /\ (Succeeded /\ getDownloadRange.outcome = "ok" /\ getDownloadRange.total <= Size) =>
           HoldsSpan(getDownloadRange.pos, getDownloadRange.total - getDownloadRange.pos)

\* C18: with PartSizeBytes below the minimum or a negative PartBodyMaxRetries
\* the call does nothing but return a configuration error and no result: no
\* request is ever issued, no worker started, nothing written.
C18_ConfigErrorBeforeAnyFetch ==
  (options.PartSizeBytes < minPartSizeBytes \/ options.PartBodyMaxRetries < 0) =>
     /\ g.log = {}
     /\ g.nFetch = 0
     /\ \A p \in DOMAIN dest : dest[p] = 0
     /\ th[Main].pc \in {"init", "done"}
     /\ \A w \in Threads \ {Main} : th[w].pc = "idle"
     /\ ret.state # "running" =>
          (Returned /\ ret.out.isNil /\ ret.err.kind = "ConfigError")

C18_Witness ==
  /\ options.PartBodyMaxRetries < 0
  /\ options.PartSizeBytes >= minPartSizeBytes
  /\ Returned
  /\ ret.err.kind = "ConfigError"

\* A download in byte-range mode that reads the explicit Range of its input.
ReadsRange ==
  /\ options.GetObjectType = "RANGES"
  /\ in.PartNumber = 0
  /\ in.Range # EmptyStr
  /\ initOk

\* The explicit Range is bytes=s-e, lies inside the object and is at most one
\* chunk long.
RangeFitsOneChunk(s, e) ==
  /\ ReadsRange
  /\ in.Range = FmtRange(s, e)
  /\ s <= e
  /\ e < Size
  /\ e - s + 1 <= options.PartSizeBytes

\* C16: in byte-range mode with a Range bytes=s-e inside the object and at most
\* one chunk long, one chunk at most is requested, by the caller's goroutine
\* and with the caller's Range, and nothing is queued; a call that succeeds
\* has requested exactly one chunk, reports e-s+1 bytes written and the
\* content range "bytes=s-e", and has written the bytes s..e and no others.
C16_OneChunkSubRange ==
  \A s \in 0..MaxObjSize, e \in 0..MaxObjSize :
    RangeFitsOneChunk(s, e) =>
       /\ Cardinality(ChunksFetched) <= 1
       /\ \A f \in g.log : ~f.worker /\ f.params.Range = FmtRange(s, e)
       /\ ch.buf = <<>>
       /\ Succeeded =>
            /\ Cardinality(ChunksFetched) = 1
            /\ ret.out.ContentLength = e - s + 1
            /\ ret.out.ContentRange = FmtRange(s, e)
            /\ HoldsSpan(s, e - s + 1)

C16_Witness ==
  /\ \E s \in 1..MaxObjSize, e \in 0..MaxObjSize : RangeFitsOneChunk(s, e) /\ e + 1 < Size
  /\ Succeeded
  /\ options.Concurrency = 2

\* C17: a download of a whole object that is smaller than one chunk requests
\* one chunk at most (the probe, made by the caller's goroutine) and queues
\* nothing; a call that succeeds has requested exactly one chunk, reports the
\* object's size as the bytes written, and has written the object.
C17_SmallObjectOneFetch ==
  (WholeObject /\ initOk /\ Size < options.PartSizeBytes) =>
     /\ Cardinality(ChunksFetched) <= 1
     /\ \A e \in g.log : ~e.worker
     /\ ch.buf = <<>>
     /\ Succeeded =>
          /\ Cardinality(ChunksFetched) = 1
          /\ ret.out.ContentLength = Size
          /\ HoldsObject

C17_Witness ==
  /\ WholeObject
  /\ Size < options.PartSizeBytes
  /\ options.GetObjectType = "RANGES"
  /\ options.Concurrency = 2
  /\ Succeeded

\* C19: in byte-range mode a malformed Range (no "=", no "-", a start or an
\* end that is not a number) makes the call end by returning a parse error and
\* no result; it never ends in a panic.
C19_MalformedRangeIsAnError ==
  (ReadsRange /\ getDownloadRange.outcome # "ok" /\ ret.state # "running") =>
     /\ Returned
     /\ ret.out.isNil
     /\ ret.err.kind = "ParseError"

\* C20: when the Range fails to parse, no request is ever issued, nothing is
\* written, and the call returns the parse error.
C20_ParseFailureAborts ==
  (ReadsRange /\ getDownloadRange.outcome = "error") =>
     /\ g.log = {}
     /\ \A p \in DOMAIN dest : dest[p] = 0
     /\ ret.state # "running" => (Returned /\ ret.err = Err("ParseError", 0))

\* C21: when the first response declares a Content-Range whose total is not a
\* decimal integer, no worker ever requests a chunk, nothing is queued, and
\* the call ends by returning a non-nil error, on every path.
C21_BadContentRangeIsFatal ==
  g.badFirst =>
     /\ \A e \in g.log : ~e.worker
     /\ ch.buf = <<>>
     /\ ret.state # "running" => (Returned /\ ret.err # Nil)

\* The call went through the probe (it is not a single-shot download).
ThroughProbe == m.kind \in {"probe", "fanout"}

\* C22: a download through the probe and fan-out that succeeds reports as
\* ContentLength the sum of the bytes its chunks wrote, that sum is
\* totalBytes - offset, and its ContentRange is "bytes=offset-(totalBytes-1)".
C22_ResultAccountsForAllBytes ==
  (Succeeded /\ ThroughProbe) =>
     /\ ret.out.ContentLength = g.copied
     /\ g.copied = d.totalBytes - d.offset
     /\ ret.out.ContentRange = FmtRange(d.offset, d.totalBytes - 1)

\* C22, what does hold: the same when the explicit Range, if any, ends inside
\* the object.
C22_HoldsInsideObject ==
  (Succeeded /\ ThroughProbe /\ d.totalBytes <= Size) =>
     /\ ret.out.ContentLength = g.copied
     /\ g.copied = d.totalBytes - d.offset
     /\ ret.out.ContentRange = FmtRange(d.offset, d.totalBytes - 1)

\* The call is in byte-range mode with the explicit Range bytes=s-e.
ExplicitRange(s, e) ==
  /\ options.GetObjectType = "RANGES"
  /\ in.PartNumber = 0
  /\ in.Range = FmtRange(s, e)

C24_ErrIsSticky == [][d.err # Nil => d'.err # Nil]_vars

C24_Witness ==
  /\ m.kind = "fanout"
  /\ Len(g.errs) >= 2
  /\ d.err # Nil
  /\ Returned

\* C25: d.out is set at most once; it is the metadata of the first chunk
\* response that was read to the end (the probe's) and no later chunk replaces
\* it; a result returned with success carries the identity tag and the part
\* count of that first response.
C25_OutputSetOnce ==
  /\ [][~d.out.isNil => d'.out = d.out]_vars
  /\ [](~d.out.isNil => d.out = g.firstOut)
  /\ []((Succeeded /\ ~ret.out.isNil) =>
          /\ ret.out.ETag = g.firstOut.ETag
          /\ ret.out.PartsCount = g.firstOut.PartsCount)

C25_Witness ==
  /\ Succeeded
  /\ m.kind = "fanout"
  /\ options.Concurrency = 2
  /\ Cardinality({e \in g.log : e.worker}) >= 2
  /\ d.out = g.firstOut

\* C26: the identity tag is captured exactly once, from the first chunk
\* response read to the end, and never changes afterwards, also when a later
\* response carries another ETag.
C26_EtagCapturedOnce ==
  /\ [][d.etag # "" => d'.etag = d.etag]_vars
  /\ [](g.firstOut.isNil => (d.etag = "" /\ ~d.etagOnce))
  /\ [](~g.firstOut.isNil => (d.etag = g.firstOut.ETag /\ d.etagOnce))

\* A later response carried the ETag of the overwritten object: the
\* destination holds a byte of version 2 while the tag is version 1's.
C26_Witness ==
  /\ Succeeded
  /\ m.kind = "fanout"
  /\ d.etag = ETagOf(1)
  /\ \E p \in DOMAIN dest : dest[p] = Byte(2, p)

\* C27: when a worker requests a chunk the probe is over: the caller's
\* goroutine is past its fetch, the probe's body is written whole at the start
\* of the destination, and the total size, the part count (part mode) and the
\* identity tag are recorded; no worker is in a fetch while the caller is.
C27_ProbeBeforeFanOut ==
  /\ (\E e \in g.log : e.worker) =>
        /\ th[Main].pc \in {"pcheck", "psend", "wait", "done"}
        /\ ~g.firstOut.isNil
        /\ d.out = g.firstOut
        /\ \A p \in 0..(g.firstOut.ContentLength - 1) : dest[p] # 0
        /\ d.totalBytes >= 0
        /\ options.GetObjectType = "PARTS" => m.PartsCount = Len(object.layout)
        /\ d.etag = g.firstOut.ETag
        /\ \A e \in g.log : e.worker => e.etag = d.etag
  /\ th[Main].pc \in {"start", "inflight"} =>
        \A w \in Threads \ {Main} : th[w].pc = "idle"

C27_Witness ==
  /\ options.Concurrency = 2
  /\ Cardinality({w \in Threads \ {Main} : th[w].pc = "inflight"}) = 2
  /\ options.GetObjectType = "PARTS"

\* C28: once the context is cancelled while chunks are left, no fetch reads
\* its body to the end any more and no byte in the destination is taken back;
\* the call (Concurrency >= 1) ends, by returning no result and the
\* cancellation error: the context's error as GetObject returned it, or the
\* errReadingBody that wraps it when the last attempt allowed was cut while
\* its body was read.
C28_CancellationSurfaces ==
  /\ [][object.fetcher = "cancelled" =>
          /\ g'.copied = g.copied
          /\ \A p \in DOMAIN dest : dest[p] # 0 => dest'[p] # 0]_vars
  /\ []((object.fetcher = "cancelled" /\ options.Concurrency >= 1) =>
          /\ ~SomeGoroutineCanStep => ret.state # "running"
          /\ ret.state # "running" =>
                /\ Returned
                /\ ret.out.isNil
                /\ ret.err.kind \in {"Canceled", "errReadingBody"}
                /\ ret.err.kind = "errReadingBody" =>
                      ret.err.try = options.PartBodyMaxRetries - 1)

C28_Witness ==
  /\ object.fetcher = "cancelled"
  /\ m.kind = "fanout"
  /\ options.Concurrency = 2
  /\ Returned
  /\ ret.err.kind = "Canceled"
  /\ g.copied >= 2
  /\ \E p \in DOMAIN dest : dest[p] # 0

\* C29: every read and every write of totalBytes, etag, err, out and written
\* made while the workers exist is made by the holder of d.m.
C29_SharedFieldsUnderMutex ==
  [][WorkersExist =>
       \A t \in Threads : \A a \in AccessesOf(t) : a.field \in SharedFields => a.locked]_vars

\* C29, what holds: while the workers exist no goroutine writes one of these
\* fields without d.m (the two Once functions have run before the fan-out).
C29_WritesUnderMutex ==
  [][WorkersExist =>
       \A t \in Threads : \A a \in AccessesOf(t) :
         (a.field \in SharedFields /\ a.write) => a.locked]_vars

\* The span [a, b] that the Range header of a logged request asks for.
SpanOf(e) ==
  LET ab == Split(Split(e.params.Range, "=")[2], "-")
  IN  [a |-> ParseInt(ab[1]).val, b |-> ParseInt(ab[2]).val]

\* A download in byte-range mode through the probe and the fan-out.
ByteRangeMode == options.GetObjectType = "RANGES" /\ in.PartNumber = 0 /\ initOk

\* The chunks requested are pairwise disjoint, at most PartSizeBytes long,
\* and each is written at its object position less offset.
DisjointChunks ==
  \A e \in ChunksFetched :
    /\ SpanOf(e).a <= SpanOf(e).b
    /\ SpanOf(e).b - SpanOf(e).a + 1 <= options.PartSizeBytes
    /\ e.start = SpanOf(e).a - d.offset
    /\ \A f \in ChunksFetched :
          f.start # e.start => (SpanOf(f).b < SpanOf(e).a \/ SpanOf(e).b < SpanOf(f).a)

\* Every position of [offset, totalBytes) is requested by exactly one chunk.
CoversOnce ==
  \A p \in d.offset..(d.totalBytes - 1) :
    Cardinality({e \in ChunksFetched : SpanOf(e).a <= p /\ p <= SpanOf(e).b}) = 1

\* C30 as stated: in byte-range mode with no error the requested ranges are
\* pairwise disjoint, at most PartSizeBytes long, none extends past
\* totalBytes-1 (nor, with an explicit Range bytes=s-e, outside [s, e]), they
\* cover [offset, totalBytes) exactly once, and the chunk at object position p
\* is written at p - offset.
C30_RangesPartitionTheObject ==
  (ByteRangeMode /\ Succeeded) =>
     /\ DisjointChunks
     /\ \A e \in ChunksFetched : SpanOf(e).b <= d.totalBytes - 1
     /\ \A s \in 0..MaxObjSize, t \in 0..MaxObjSize :
          in.Range = FmtRange(s, t) =>
             \A e \in ChunksFetched : s <= SpanOf(e).a /\ SpanOf(e).b <= t
     /\ CoversOnce

\* C30, amended: the same, except that the probe of a download without an
\* explicit Range, made while the total is unknown, asks for
\* bytes=0-(PartSizeBytes-1) whatever the size of the object.
C30_RangesPartitionButProbe ==
  (ByteRangeMode /\ Succeeded) =>
     /\ DisjointChunks
     /\ \A e \in ChunksFetched :
          IF in.Range = EmptyStr /\ ~e.worker
          THEN SpanOf(e) = [a |-> 0, b |-> options.PartSizeBytes - 1]
          ELSE SpanOf(e).b <= d.totalBytes - 1
     /\ \A s \in 0..MaxObjSize, t \in 0..MaxObjSize :
          in.Range = FmtRange(s, t) =>
             \A e \in ChunksFetched : s <= SpanOf(e).a /\ SpanOf(e).b <= t
     /\ CoversOnce

C30_Witness ==
  /\ ByteRangeMode
  /\ Succeeded
  /\ in.Range = EmptyStr
  /\ Cardinality(ChunksFetched) = 3
  /\ d.totalBytes = 5
  /\ options.PartSizeBytes = 2

\* A download in part mode without an explicit Range or part number.
PartMode ==
  options.GetObjectType = "PARTS" /\ in.PartNumber = 0 /\ in.Range = EmptyStr /\ initOk

\* The part numbers queued, in the order of the queue.
QueuedParts == [k \in 1..Len(ch.buf) |-> ch.buf[k].part]

\* C31: in part mode without an explicit Range the caller's goroutine fetches
\* part 1 and nothing else; with a reported part count <= 1 no worker is
\* started and nothing more is fetched; otherwise the parts are queued in
\* ascending order, each once (those queued are below the producer's counter,
\* those fetched are not queued any more), part i goes to destination offset
\* (i-1) * partSize, partSize being the content length of part 1, and a call
\* that succeeds has fetched each of the parts 1..N exactly once.
C31_PartsFanOut ==
  PartMode =>
     /\ \A e \in g.log : e.worker <=> e.params.PartNumber # 1
     /\ \A e \in g.log : e.params.Range = EmptyStr /\ e.params.PartNumber >= 1
     /\ Len(object.layout) <= 1 =>
           /\ \A w \in Threads \ {Main} : th[w].pc = "idle"
           /\ ch.buf = <<>>
           /\ Cardinality(ChunksFetched) <= 1
     /\ m.kind = "fanout" =>
           /\ m.partSize = object.layout[1]
           /\ m.PartsCount = Len(object.layout)
           /\ \A k \in 1..Len(ch.buf) :
                 /\ 2 <= QueuedParts[k] /\ QueuedParts[k] < m.i
                 /\ k > 1 => QueuedParts[k - 1] < QueuedParts[k]
                 /\ ch.buf[k].start = (QueuedParts[k] - 1) * m.partSize
                 /\ \A e \in g.log : e.params.PartNumber # QueuedParts[k]
           /\ \A e \in g.log :
                 /\ e.params.PartNumber < m.i
                 /\ e.start = (e.params.PartNumber - 1) * m.partSize
     /\ (Succeeded /\ Len(object.layout) > 1) =>
           \A i \in 1..Len(object.layout) :
             Cardinality({e \in ChunksFetched : e.params.PartNumber = i}) = 1

C31_Witness ==
  /\ PartMode
  /\ Succeeded
  /\ Len(object.layout) = 3
  /\ object.layout[1] # object.layout[2]
  /\ Cardinality(ChunksFetched) = 3

\* C32: a worker that finds an error recorded when it checks the chunk it
\* received goes back to the receive, and that step requests nothing and
\* writes nothing; a worker leaves only from the receive, when the channel is
\* closed and empty.
C32_WorkerSkipsAfterError ==
  [][\A w \in Threads \ {Main} :
       /\ (th[w].pc = "check" /\ d.err # Nil /\ th'[w] # th[w]) =>
             /\ th'[w].pc = "recv"
             /\ g'.log = g.log /\ g'.nFetch = g.nFetch
             /\ dest' = dest
             /\ d' = d
       /\ (th[w].pc # "exit" /\ th'[w].pc = "exit") =>
             /\ th[w].pc = "recv"
             /\ ch.closed /\ ch.buf = <<>>]_vars

\* A fan-out over three parts returned an error; part 3 was queued, has left
\* the queue, and was never requested.
C32_Witness ==
  /\ PartMode
  /\ Returned /\ ret.err # Nil
  /\ m.kind = "fanout"
  /\ m.i = 4
  /\ ch.buf = <<>>
  /\ \A e \in g.log : e.params.PartNumber # 3

\* The producer has chunks left to queue.
CoverageIncomplete ==
  IF options.GetObjectType = "PARTS" THEN m.i <= m.PartsCount ELSE d.pos < m.total

\* C33: the producer goes to a send only from a check that found no error
\* recorded and coverage incomplete, and sends only from there; it closes the
\* channel from a check that found an error or coverage complete, and then
\* waits: the channel is closed once, stays closed, and nothing is sent on it
\* afterwards; a fan-out that has returned has closed it.
C33_ProducerProtocol ==
  /\ [][/\ (th[Main].pc # "psend" /\ th'[Main].pc = "psend") =>
             (th[Main].pc = "pcheck" /\ d.err = Nil /\ CoverageIncomplete /\ ~ch.closed)
        /\ Len(ch'.buf) > Len(ch.buf) =>
             (th[Main].pc = "psend" /\ ~ch.closed /\ ~ch'.closed
                /\ ch'.buf = Append(ch.buf, NextChunk))
        /\ (~ch.closed /\ ch'.closed) =>
             (th[Main].pc = "pcheck" /\ th'[Main].pc = "wait"
                /\ (d.err # Nil \/ ~CoverageIncomplete))
        /\ ch.closed => ch'.closed]_vars
  /\ [](ch.closed => th[Main].pc \in {"wait", "done"})
  /\ []((Returned /\ m.kind = "fanout") => ch.closed)

\* The producer closed the channel on an error while chunks were left.
C33_Witness ==
  /\ ch.closed
  /\ d.err # Nil
  /\ CoverageIncomplete
  /\ m.kind = "fanout"
  /\ g.nFetch >= 2

\* C34: the attempts of a chunk are numbered 0 .. PartBodyMaxRetries-1 and
\* each number is used once, so a chunk is requested PartBodyMaxRetries times
\* at most; an attempt after the first follows the attempt before it, which
\* did not fail at call level, and the goroutine making it holds the
\* errReadingBody of that attempt.
C34_AttemptsBounded ==
  /\ g.nFetch = Cardinality(g.log)
  /\ \A e \in g.log :
       /\ 0 <= e.retry /\ e.retry < options.PartBodyMaxRetries
       /\ \A f \in g.log : (f.start = e.start /\ f.retry = e.retry) => f = e
       /\ e.retry > 0 =>
             /\ \E f \in g.log : f.start = e.start /\ f.retry = e.retry - 1
                                    /\ f.params = e.params
             /\ \A c \in g.callErrs : ~(c.start = e.start /\ c.retry = e.retry - 1)
  /\ \A t \in Threads :
       (th[t].pc \in {"start", "inflight"} /\ th[t].retry > 0) =>
          /\ th[t].err.kind = "errReadingBody"
          /\ th[t].err.try = th[t].retry - 1

\* A worker's chunk was requested twice, the second time after a body-stream
\* failure, and is not requested again.
C34_Witness ==
  /\ options.PartBodyMaxRetries = 2
  /\ \E e \in g.log : e.retry = 1 /\ e.worker
  /\ \E w \in Threads \ {Main} : th[w].pc = "start" /\ th[w].retry = 2

\* What the service answers to the request goroutine t has in flight.
AnswerTo(t) ==
  Serve(th[t].params, object.layout, IF in.VersionID # "" THEN 1 ELSE object.version)

\* C35: every attempt of a chunk starts writing at the chunk's base offset: an
\* attempt, failed or not, changes no destination byte outside the chunk's
\* range [start, start + length), and after an attempt that read its body to
\* the end, first or retry, that range holds the bytes of the chunk in order,
\* whatever the failed attempts had written.
C35_RetryRewritesWholeChunk ==
  [][\A t \in Threads :
       (th[t].pc = "inflight" /\ th'[t] # th[t] /\ AnswerTo(t).err = "nil") =>
          LET r == AnswerTo(t)
              len == r.b - r.a + 1
              start == th[t].chunk.start
          IN  /\ th[t].chunk.cur = 0
              /\ \A p \in DOMAIN dest :
                    dest'[p] # dest[p] => (start <= p /\ p < start + len)
              /\ g'.copied > g.copied =>
                    \A p \in start..(start + len - 1) :
                      dest'[p] = Byte(IF in.VersionID # "" THEN 1 ELSE object.version,
                                      r.a + (p - start))]_vars

\* A fan-out in which every chunk failed once and succeeded on the retry has
\* left the object in the destination.
C35_Witness ==
  /\ Succeeded
  /\ WholeObject
  /\ options.PartBodyMaxRetries = 2
  /\ m.kind = "fanout"
  /\ HoldsObject
  /\ Size = MaxObjSize
  /\ \E e \in g.log : e.retry = 1 /\ e.worker
  /\ \E e \in g.log : e.retry = 1 /\ ~e.worker

\* The workers started so far.
Started == {w \in Threads \ {Main} : th[w].pc # "idle"}

\* C36: the fan-out starts exactly Concurrency workers, all at once, and no
\* worker exists outside a fan-out; the channel never holds more than
\* Concurrency descriptors, and a producer at its send does not move while
\* the channel holds Concurrency descriptors.
C36_BoundedPoolAndQueue ==
  /\ [](Len(ch.buf) <= options.Concurrency)
  /\ [](Cardinality(Started) = IF m.kind = "fanout" THEN options.Concurrency ELSE 0)
  /\ [][(th[Main].pc = "psend" /\ Len(ch.buf) >= options.Concurrency) =>
           (th'[Main] = th[Main] /\ Len(ch'.buf) <= Len(ch.buf))]_vars

\* The producer stands at its send with the channel full: the one worker has
\* not yet received the descriptor queued before.
C36_Witness ==
  /\ options.Concurrency = 1
  /\ Cardinality(Started) = 1
  /\ Len(ch.buf) = 1
  /\ th[Main].pc = "psend"

\* The requests workers issued while an error was already recorded.
IssuedAfterError == {e \in g.log : e.worker /\ e.afterErr}

\* The producer sends nothing after an error is recorded but the descriptor
\* it was already about to send.
OneMoreDescriptor ==
  [][(d.err # Nil /\ th[Main].pc # "psend") =>
        (th'[Main].pc # "psend" /\ Len(ch'.buf) <= Len(ch.buf))]_vars

\* C37 as stated: once an error is recorded in a fan-out, the workers start
\* at most Concurrency - 1 further requests, the producer queues at most one
\* further descriptor, and the call does not return while a fetch is in
\* flight.
C37_FewFetchesAfterError ==
  /\ [](Cardinality(IssuedAfterError) <= IF options.Concurrency >= 1
                                         THEN options.Concurrency - 1 ELSE 0)
  /\ OneMoreDescriptor
  /\ [](ret.state # "running" => InFlight = {})

\* C37, amended: the same, counting the chunks whose first request is issued
\* after the error; each of them, like the chunks in flight, is still retried
\* after body-stream failures.
C37_FewChunksAfterError ==
  /\ [](Cardinality({e \in IssuedAfterError : e.retry = 0})
           <= IF options.Concurrency >= 1 THEN options.Concurrency - 1 ELSE 0)
  /\ OneMoreDescriptor
  /\ [](ret.state # "running" => InFlight = {})

\* A worker that had passed its check requested its chunk after another
\* worker's error was recorded, and the producer has queued nothing since.
C37_Witness ==
  /\ options.Concurrency = 2
  /\ m.kind = "fanout"
  /\ Returned /\ ret.err # Nil
  /\ Cardinality({e \in IssuedAfterError : e.retry = 0}) = 1

\* C38: while the workers exist, an access made without the mutex is either a
\* read of etag or totalBytes, which no step changes in that time (both were
\* written in the probe, before the workers were started), or an access of
\* the caller's goroutine to pos or offset, which no worker's step touches.
C38_NoDataRace ==
  [][WorkersExist =>
       /\ \A t \in Threads : \A a \in AccessesOf(t) :
             ~a.locked =>
                \/ a.field \in {"etag", "totalBytes"} /\ ~a.write
                \/ a.field \in {"pos", "offset"} /\ t = Main
       /\ d'.etag = d.etag /\ d'.etagOnce = d.etagOnce
       /\ d'.totalBytes = d.totalBytes /\ d'.totalBytesOnce = d.totalBytesOnce
       /\ \A w \in Threads \ {Main} :
             th'[w] # th[w] => (d'.pos = d.pos /\ d'.offset = d.offset)]_vars

\* A worker has a fetch in flight, with the request it built from d.etag,
\* while the producer, having moved d.pos, stands at its next send.
C38_Witness ==
  /\ WorkersExist
  /\ th[Main].pc = "psend"
  /\ d.etag # ""
  /\ \E w \in Threads \ {Main} : th[w].pc = "inflight" /\ th[w].params.IfMatch = d.etag

\* The destination offsets of the descriptors the producer has sent so far:
\* parts 2 .. i-1 in part mode; in byte-range mode the positions from the end
\* of the probe's chunk up to d.pos, PartSizeBytes apart.
EnqueuedStarts ==
  IF m.kind # "fanout" THEN {}
  ELSE IF options.GetObjectType = "PARTS"
  THEN {(i - 1) * m.partSize : i \in 2..(m.i - 1)}
  ELSE {q \in 0..DestTop :
          /\ g.firstOut.ContentLength <= q /\ q < d.pos - d.offset
          /\ (q - g.firstOut.ContentLength) % options.PartSizeBytes = 0}

\* The workers that hold the descriptor with destination offset q.
Holders(q) ==
  {w \in Threads \ {Main} : th[w].pc \in {"check", "start", "inflight"} /\ th[w].chunk.start = q}

\* The places of the channel that hold the descriptor with destination offset q.
QueuedAt(q) == {k \in 1..Len(ch.buf) : ch.buf[k].start = q}

\* The length of the body the service sends for a logged request.
ServedLen(e) ==
  LET r == Serve([e.params EXCEPT !.IfMatch = ""], object.layout, 1)
  IN  r.b - r.a + 1

RECURSIVE SumServed(_)
SumServed(S) ==
  IF S = {} THEN 0
  ELSE LET e == CHOOSE x \in S : TRUE IN ServedLen(e) + SumServed(S \ {e})

\* C39: a descriptor the producer sent is, at any time, in the channel once,
\* or with one worker, or done with; until it has reached a worker's fetch it
\* has not been requested; only descriptors that were sent are in the channel
\* or with a worker; while no error is recorded none is dropped (it is queued,
\* held, or has been requested by a worker); a receive takes the head of the
\* channel and gives it to one worker; when the call has returned the channel
\* is empty and no worker holds a descriptor; a call that succeeds has
\* requested exactly the chunks sent, and the bytes read by successful
\* attempts are those of one attempt per chunk.
C39_EachDescriptorToOneWorker ==
  /\ [](\A q \in EnqueuedStarts :
          /\ Cardinality(Holders(q)) + Cardinality(QueuedAt(q)) <= 1
          /\ (QueuedAt(q) # {} \/ \E w \in Holders(q) : th[w].pc = "check") =>
                \A e \in g.log : ~(e.worker /\ e.start = q)
          /\ (d.err = Nil /\ options.PartBodyMaxRetries >= 1) =>
                \/ Holders(q) # {} \/ QueuedAt(q) # {}
                \/ \E e \in g.log : e.worker /\ e.start = q)
  /\ [](/\ \A k \in 1..Len(ch.buf) : ch.buf[k].start \in EnqueuedStarts
        /\ \A w \in Threads \ {Main} :
              th[w].pc \in {"check", "start", "inflight"} => th[w].chunk.start \in EnqueuedStarts
        /\ \A e \in g.log : e.worker => e.start \in EnqueuedStarts)
  /\ [][Len(ch'.buf) < Len(ch.buf) =>
          /\ ch'.buf = Tail(ch.buf)
          /\ \E w \in Threads \ {Main} :
                /\ th[w].pc = "recv" /\ th'[w].pc = "check"
                /\ th'[w].chunk = Head(ch.buf)
                /\ \A u \in Threads \ {w} : th'[u] = th[u]]_vars
  /\ []((Returned /\ m.kind = "fanout") =>
          /\ ch.buf = <<>>
          /\ \A w \in Threads \ {Main} : th[w].pc \in {"idle", "exit"})
  /\ []((Succeeded /\ m.kind = "fanout") =>
          /\ {e.start : e \in {x \in g.log : x.worker}} = EnqueuedStarts
          /\ g.copied = SumServed(ChunksFetched))

\* A successful fan-out in which two workers took three descriptors.
C39_Witness ==
  /\ Succeeded
  /\ m.kind = "fanout"
  /\ options.Concurrency = 2
  /\ Cardinality(EnqueuedStarts) = 2
  /\ Cardinality(ChunksFetched) = 3

\* C40: for every configuration init accepts, Concurrency = 0 included, the
\* producer never blocks forever on a send: whenever it stands at a send,
\* some goroutine of the call can take a step (no behaviour visits a state
\* twice, so a producer that cannot send while nothing else can move stays
\* blocked for ever and the call never returns).
C40_ProducerNeverBlocksForever ==
  (initOk /\ ret.state = "running" /\ th[Main].pc = "psend") => SomeGoroutineCanStep

\* C40, what does hold: the same with Concurrency >= 1.
C40_HoldsWithWorkers ==
  (initOk /\ options.Concurrency >= 1 /\ ret.state = "running" /\ th[Main].pc = "psend")
     => SomeGoroutineCanStep

====
